---- MODULE Spec2Model ----
(***************************************************************************)
(* Model of the chat task of aleph-alpha-client (src/src/chat.rs): the     *)
(* builder of a TaskChat, the request body build_request serialises, and   *)
(* body_to_output's extraction of a ChatOutput from a ResponseChat.  The   *)
(* client's classification of HTTP answers (exercised by tests/unit.rs) is *)
(* modelled from the specification text.                                   *)
(*                                                                         *)
(* Option<T> is a sequence of length at most one: <<>> is None and <<v>>   *)
(* is Some(v).  An f64 is named by its decimal text; "NaN" and "inf" are   *)
(* the non-finite values.                                                  *)
(***************************************************************************)
EXTENDS Integers, Sequences, FiniteSets, TLC

VARIABLES
    task,       \* the TaskChat value the caller holds
    origin,     \* "new": made by TaskChat::new; "literal": by a struct expression
    newArg,     \* Some(message given to TaskChat::new)
    appended,   \* the messages given to append_message so far, in call order
    prev,       \* the task before the last builder call
    lastCall,   \* the last builder call and its arguments
    setterCalled, \* whether a with_* method was ever called on the task
    pc,         \* where the request/response cycle stands
    request,    \* Some(the request build_request described)
    http,       \* Some(the answer of the server: status, code, choices)
    response,   \* body_to_output's `mut response` parameter, as the call leaves it
    output,     \* Some(the ChatOutput body_to_output returned)
    result      \* outcome of the cycle: "pending", "ok", an Error variant, "panic"

vars == <<task, origin, newArg, appended, prev, lastCall, setterCalled, pc, request, http,
          response, output, result>>

builderVars == <<task, origin, newArg, appended, prev, lastCall, setterCalled>>
clientVars  == <<http, response, output, result>>

(***************************************************************************)
(* Bounds and input sets                                                   *)
(***************************************************************************)
MaxAppends == 2
MaxChoices == 3

Role     == {"System", "User", "Assistant"}
Contents == {"Hello", "Hi"}
ModelNames == {"luminous-base", "luminous-extended"}
U32s     == {1, 64}
NonFinite == {"NaN", "inf"}
F64s     == {"0.5", "NaN"}

None == <<>>
Some(v) == <<v>>
OptionOf(S) == {None} \cup {Some(v) : v \in S}

Message(role, content) == [role |-> role, content |-> content]
Messages == {Message(r, c) : r \in Role, c \in Contents}

(***************************************************************************)
(* TaskChat and its builder                                                *)
(***************************************************************************)
TaskChat(messages, maximum_tokens, temperature, top_p) ==
    [messages |-> messages, maximum_tokens |-> maximum_tokens,
     temperature |-> temperature, top_p |-> top_p]

TaskChat_new(role, content) ==
    TaskChat(<<Message(role, content)>>, None, None, None)

\* Faulty variants of append_message: the message put first, and the message
\* put in place of the others.
append_message_Prepend(self, role, content) ==
    [self EXCEPT !.messages = <<Message(role, content)>> \o self.messages]

append_message_Replace(self, role, content) ==
    [self EXCEPT !.messages = <<Message(role, content)>>]

append_message(self, role, content) ==
    [self EXCEPT !.messages = Append(self.messages, Message(role, content))]

with_maximum_tokens(self, maximum_tokens) ==
    [self EXCEPT !.maximum_tokens = Some(maximum_tokens)]

with_temperature(self, temperature) ==
    [self EXCEPT !.temperature = Some(temperature)]

\* Faulty variant of with_top_p: it sets the temperature.
with_top_p_SetsTemperature(self, top_p) ==
    [self EXCEPT !.temperature = Some(top_p)]

with_top_p(self, top_p) ==
    [self EXCEPT !.top_p = Some(top_p)]

Call(op, msg, n, f) == [op |-> op, msg |-> msg, n |-> n, f |-> f]

(***************************************************************************)
(* Serialisation of the request body                                       *)
(***************************************************************************)
JString(s) == [type |-> "string", str |-> s]
JInt(n)    == [type |-> "number", int |-> n]
JFloat(x)  == [type |-> "number", float |-> x]
JNull      == [type |-> "null"]
JArray(s)  == [type |-> "array", items |-> s]
JObject(s) == [type |-> "object", fields |-> s]
Entry(k, v) == [key |-> k, value |-> v]

HasKey(fields, k) == \E i \in DOMAIN fields : fields[i].key = k
ValueOf(fields, k) == fields[CHOOSE i \in DOMAIN fields : fields[i].key = k].value
KeysOf(fields) == [i \in DOMAIN fields |-> fields[i].key]

\* Faulty variant of SerializeRole: the variants' names, not renamed.
SerializeRole_NoRename(role) == role

SerializeRole(role) ==
    CASE role = "System" -> "system"
      [] role = "User" -> "user"
      [] role = "Assistant" -> "assistant"

DeserializeRole(token) ==
    CASE token = "system" -> Some("System")
      [] token = "user" -> Some("User")
      [] token = "assistant" -> Some("Assistant")
      [] OTHER -> None

SerializeMessage(m) ==
    JObject(<<Entry("role", JString(SerializeRole(m.role))),
              Entry("content", JString(m.content))>>)

SerializeU32(n) == JInt(n)

\* serde_json, which .json(&body) writes the body with, writes an f64 that is
\* NaN or infinite as null and a finite one as a number.
SerializeF64(x) == IF x \in NonFinite THEN JNull ELSE JFloat(x)

\* Faulty variant of ChatBody::new: top_p taken from the temperature.
ChatBody_new_TopPFromTemperature(model, t) ==
    [model |-> model, messages |-> t.messages,
     maximum_tokens |-> t.maximum_tokens, temperature |-> t.temperature,
     top_p |-> t.temperature]

ChatBody_new(model, t) ==
    [model |-> model, messages |-> t.messages,
     maximum_tokens |-> t.maximum_tokens, temperature |-> t.temperature,
     top_p |-> t.top_p]

\* Faulty variant of the serialisation of ChatBody: no field is skipped, an
\* unset one is written as null.
SerializeChatBody_NoSkip(b) ==
    <<Entry("model", JString(b.model)),
      Entry("messages",
            JArray([i \in DOMAIN b.messages |-> SerializeMessage(b.messages[i])])),
      Entry("maximum_tokens",
            IF b.maximum_tokens = None THEN JNull
            ELSE SerializeU32(b.maximum_tokens[1])),
      Entry("temperature",
            IF b.temperature = None THEN JNull
            ELSE SerializeF64(b.temperature[1])),
      Entry("top_p",
            IF b.top_p = None THEN JNull ELSE SerializeF64(b.top_p[1]))>>

SerializeChatBody(b) ==
    <<Entry("model", JString(b.model)),
      Entry("messages",
            JArray([i \in DOMAIN b.messages |-> SerializeMessage(b.messages[i])]))>>
    \o (IF b.maximum_tokens = None THEN <<>>
        ELSE <<Entry("maximum_tokens", SerializeU32(b.maximum_tokens[1]))>>)
    \o (IF b.temperature = None THEN <<>>
        ELSE <<Entry("temperature", SerializeF64(b.temperature[1]))>>)
    \o (IF b.top_p = None THEN <<>>
        ELSE <<Entry("top_p", SerializeF64(b.top_p[1]))>>)

build_request(self, model) ==
    [method |-> "POST", path |-> "/chat/completions", model |-> model,
     body |-> SerializeChatBody(ChatBody_new(model, self))]

(***************************************************************************)
(* Initial states: a task as a caller can make it                          *)
(***************************************************************************)
InitClient ==
    /\ http = None
    /\ response = [choices |-> <<>>]
    /\ output = None
    /\ result = "pending"

InitNew ==
    \E role \in Role, content \in Contents :
        /\ task = TaskChat_new(role, content)
        /\ origin = "new"
        /\ newArg = Some(Message(role, content))
        /\ lastCall = Call("new", Some(Message(role, content)), None, None)

InitLiteral ==
    \E ms \in {<<>>} \cup {<<m>> : m \in Messages},
       mt \in OptionOf(U32s), t \in OptionOf(F64s), p \in OptionOf(F64s) :
        /\ task = TaskChat(ms, mt, t, p)
        /\ origin = "literal"
        /\ newArg = None
        /\ lastCall = Call("literal", None, None, None)

Init ==
    /\ InitNew \/ InitLiteral
    /\ appended = <<>>
    /\ prev = task
    /\ setterCalled = FALSE
    /\ pc = "building"
    /\ request = None
    /\ InitClient

(***************************************************************************)
(* Builder actions                                                         *)
(***************************************************************************)
AppendMessage ==
    /\ pc = "building"
    /\ Len(appended) < MaxAppends
    /\ \E role \in Role, content \in Contents :
        /\ task' = append_message(task, role, content)
        /\ appended' = Append(appended, Message(role, content))
        /\ lastCall' = Call("append_message", Some(Message(role, content)), None, None)
    /\ prev' = task
    /\ UNCHANGED <<origin, newArg, setterCalled, pc, request, clientVars>>

WithMaximumTokens ==
    /\ pc = "building"
    /\ \E n \in U32s :
        /\ task' = with_maximum_tokens(task, n)
        /\ lastCall' = Call("with_maximum_tokens", None, Some(n), None)
    /\ prev' = task
    /\ setterCalled' = TRUE
    /\ UNCHANGED <<origin, newArg, appended, pc, request, clientVars>>

WithTemperature ==
    /\ pc = "building"
    /\ \E t \in F64s :
        /\ task' = with_temperature(task, t)
        /\ lastCall' = Call("with_temperature", None, None, Some(t))
    /\ prev' = task
    /\ setterCalled' = TRUE
    /\ UNCHANGED <<origin, newArg, appended, pc, request, clientVars>>

WithTopP ==
    /\ pc = "building"
    /\ \E p \in F64s :
        /\ task' = with_top_p(task, p)
        /\ lastCall' = Call("with_top_p", None, None, Some(p))
    /\ prev' = task
    /\ setterCalled' = TRUE
    /\ UNCHANGED <<origin, newArg, appended, pc, request, clientVars>>

BuildRequest ==
    /\ pc = "building"
    /\ \E model \in ModelNames :
        request' = Some(build_request(task, model))
    /\ pc' = "requested"
    /\ UNCHANGED <<builderVars, clientVars>>

Next ==
    \/ AppendMessage
    \/ WithMaximumTokens
    \/ WithTemperature
    \/ WithTopP
    \/ BuildRequest

Spec == Init /\ [][Next]_vars

(***************************************************************************)
(* The response: what the server answers, how the client classifies it,   *)
(* and body_to_output                                                      *)
(***************************************************************************)
ChatOutput(message, finish_reason) ==
    [message |-> message, finish_reason |-> finish_reason]

WireA == ChatOutput(Message("assistant", "Hello"), "stop")
WireB == ChatOutput(Message("assistant", "Hi"), "stop")
WireC == ChatOutput(Message("user", "Hi"), "maximum_tokens")
WireOutputs == {WireA, WireB, WireC}

BoundedSeq(S, n) == UNION {[1..k -> S] : k \in 0..n}

DeserializeChatOutput(w) ==
    ChatOutput(Message(DeserializeRole(w.message.role)[1], w.message.content),
               w.finish_reason)

DeserializeResponseChat(wire) ==
    [choices |-> [i \in DOMAIN wire |-> DeserializeChatOutput(wire[i])]]

HttpAnswer(status, code, choices) ==
    [status |-> status, code |-> code, choices |-> choices]

\* Faulty variant of the classification: every failure is reported as Busy.
translate_http_error_AllBusy(status, code) ==
    IF status = 200 THEN "ok" ELSE "Busy"

\* Error classification of the client, by HTTP status and error code.
translate_http_error(status, code) ==
    CASE status = 429 -> "TooManyRequests"
      [] status = 503 /\ code = "QUEUE_FULL" -> "Busy"
      [] status # 200 -> "Http"
      [] OTHER -> "ok"

\* Faulty variants of the pop: the first element taken, and the vector
\* emptied with the last element taken.
Pop_First(vec) ==
    IF vec = <<>> THEN [vec |-> vec, ret |-> None]
    ELSE [vec |-> Tail(vec), ret |-> Some(Head(vec))]

Pop_Drain(vec) ==
    IF vec = <<>> THEN [vec |-> vec, ret |-> None]
    ELSE [vec |-> <<>>, ret |-> Some(vec[Len(vec)])]

\* Vec::pop: the vector without its last element, and that element if any.
Pop(vec) ==
    IF vec = <<>> THEN [vec |-> vec, ret |-> None]
    ELSE [vec |-> SubSeq(vec, 1, Len(vec) - 1), ret |-> Some(vec[Len(vec)])]

\* Faulty variant of the unwrap: a default ChatOutput stands in for None.
Unwrap_OrDefault(opt) ==
    [panic |-> FALSE,
     value |-> IF opt = None
               THEN Some([message |-> [role |-> "Assistant", content |-> ""],
                          finish_reason |-> ""])
               ELSE opt]

\* Option::unwrap: the value, or a panic on None.
Unwrap(opt) == [panic |-> opt = None, value |-> opt]

body_to_output(resp) ==
    LET popped == Pop(resp.choices)
        got == Unwrap(popped.ret)
    IN [response |-> [choices |-> popped.vec],
        panic |-> got.panic, output |-> got.value]

Respond ==
    /\ pc = "requested"
    /\ \/ \E choices \in BoundedSeq(WireOutputs, MaxChoices) :
            http' = Some(HttpAnswer(200, "", choices))
       \/ \E status \in {429, 500, 503}, code \in {"", "QUEUE_FULL"} :
            http' = Some(HttpAnswer(status, code, <<>>))
    /\ pc' = "answered"
    /\ UNCHANGED <<builderVars, request, response, output, result>>

Receive ==
    /\ pc = "answered"
    /\ LET kind == translate_http_error(http[1].status, http[1].code) IN
        IF kind = "ok"
        THEN /\ response' = DeserializeResponseChat(http[1].choices)
             /\ pc' = "decoded"
             /\ UNCHANGED result
        ELSE /\ result' = kind
             /\ pc' = "done"
             /\ UNCHANGED response
    /\ UNCHANGED <<builderVars, request, http, output>>

BodyToOutput ==
    /\ pc = "decoded"
    /\ LET r == body_to_output(response) IN
        /\ response' = r.response
        /\ output' = r.output
        /\ result' = IF r.panic THEN "panic" ELSE "ok"
    /\ pc' = "done"
    /\ UNCHANGED <<builderVars, request, http>>

InitRequested ==
    \E role \in Role, content \in Contents, mt \in OptionOf(U32s),
       model \in ModelNames :
        LET t0 == TaskChat_new(role, content)
            t  == IF mt = None THEN t0 ELSE with_maximum_tokens(t0, mt[1])
        IN /\ task = t
           /\ origin = "new"
           /\ newArg = Some(Message(role, content))
           /\ appended = <<>>
           /\ prev = t0
           /\ setterCalled = (mt # None)
           /\ lastCall = IF mt = None
                         THEN Call("new", Some(Message(role, content)), None, None)
                         ELSE Call("with_maximum_tokens", None, mt, None)
           /\ request = Some(build_request(t, model))
           /\ pc = "requested"
           /\ InitClient

NextClient ==
    \/ Respond
    \/ Receive
    \/ BodyToOutput

SpecClient == InitRequested /\ [][NextClient]_vars

(***************************************************************************)
(* Properties of the builder and of the request body (under Spec)          *)
(***************************************************************************)
Body == request[1].body

IsPrefix(s, t) == Len(s) <= Len(t) /\ SubSeq(t, 1, Len(s)) = s

\* C1: a task made by TaskChat::new and n append_message calls, with any
\* setter calls in between, holds exactly 1 + n messages: the message given
\* to new first, then the appended messages in call order; each append adds
\* its message at the end and leaves the earlier ones where they were.
C1_AppendKeepsOrder ==
    /\ origin = "new" =>
        /\ Len(task.messages) = 1 + Len(appended)
        /\ task.messages[1] = newArg[1]
        /\ \A i \in 1..Len(appended) : task.messages[i + 1] = appended[i]
    /\ lastCall.op = "append_message" =>
        /\ Len(task.messages) = Len(prev.messages) + 1
        /\ IsPrefix(prev.messages, task.messages)
        /\ task.messages[Len(task.messages)] = lastCall.msg[1]

C1_Witness ==
    /\ origin = "new"
    /\ Len(appended) = 2
    /\ appended[1] # appended[2]
    /\ appended[1] # newArg[1]
    /\ setterCalled
    /\ lastCall.op = "append_message"

\* C4 as claimed: the body holds the key of an optional field exactly when the
\* field is set, and the key's value then equals the field's value.
C4_ValueAlwaysEqualsField ==
    pc = "requested" =>
        /\ HasKey(Body, "maximum_tokens") <=> task.maximum_tokens # None
        /\ HasKey(Body, "temperature") <=> task.temperature # None
        /\ HasKey(Body, "top_p") <=> task.top_p # None
        /\ task.maximum_tokens # None =>
            ValueOf(Body, "maximum_tokens") = JInt(task.maximum_tokens[1])
        /\ task.temperature # None =>
            ValueOf(Body, "temperature") = JFloat(task.temperature[1])
        /\ task.top_p # None =>
            ValueOf(Body, "top_p") = JFloat(task.top_p[1])

ExpectedF64(x) == IF x \in {"NaN", "inf"} THEN JNull ELSE JFloat(x)

\* C4: the body build_request produces holds the key maximum_tokens
\* (temperature, top_p) exactly when the task's field is set; an unset field
\* is absent, never null; a present key carries the field's value, except that
\* a temperature or top_p that is not a finite number is written as null.
C4_OptionalKeysIffSet ==
    pc = "requested" =>
        /\ HasKey(Body, "maximum_tokens") <=> task.maximum_tokens # None
        /\ HasKey(Body, "temperature") <=> task.temperature # None
        /\ HasKey(Body, "top_p") <=> task.top_p # None
        /\ task.maximum_tokens # None =>
            ValueOf(Body, "maximum_tokens") = JInt(task.maximum_tokens[1])
        /\ task.temperature # None =>
            ValueOf(Body, "temperature") = ExpectedF64(task.temperature[1])
        /\ task.top_p # None =>
            ValueOf(Body, "top_p") = ExpectedF64(task.top_p[1])
        /\ \A i \in DOMAIN Body :
            Body[i].value = JNull =>
                /\ Body[i].key \in {"temperature", "top_p"}
                /\ task[Body[i].key] # None
                /\ task[Body[i].key][1] \in NonFinite

C4_Witness ==
    /\ pc = "requested"
    /\ task.maximum_tokens = Some(64)
    /\ task.temperature = Some("0.5")
    /\ task.top_p = None
    /\ ValueOf(Body, "temperature") = JFloat("0.5")
    /\ ~HasKey(Body, "top_p")

\* C5 as claimed: every task handed to build_request holds a message.
C5_NeverEmpty ==
    pc = "requested" => task.messages # <<>>

\* C5: a task made by TaskChat::new and then only by append_message and the
\* with_* methods holds at least one message, and no method removes one: a
\* task holds at least as many messages as it was constructed with plus the
\* appended ones.  (messages is a public field: a struct expression makes a
\* task without any message.)
C5_BuilderNeverEmpty ==
    /\ origin = "new" => Len(task.messages) >= 1
    /\ Len(task.messages) >= Len(newArg) + Len(appended)
    /\ Len(task.messages) >= Len(prev.messages)

C5_Witness ==
    /\ origin = "new"
    /\ pc = "requested"
    /\ Len(appended) = MaxAppends
    /\ setterCalled

\* C7: with_maximum_tokens(n), with_temperature(t) and with_top_p(p) each
\* return the task with that one field set to Some of the argument, whatever
\* it held before, and with the messages and the two other fields as before.
C7_SetterFrame ==
    /\ lastCall.op = "with_maximum_tokens" =>
        /\ task.maximum_tokens = lastCall.n /\ lastCall.n # None
        /\ task.messages = prev.messages
        /\ task.temperature = prev.temperature
        /\ task.top_p = prev.top_p
    /\ lastCall.op = "with_temperature" =>
        /\ task.temperature = lastCall.f /\ lastCall.f # None
        /\ task.messages = prev.messages
        /\ task.maximum_tokens = prev.maximum_tokens
        /\ task.top_p = prev.top_p
    /\ lastCall.op = "with_top_p" =>
        /\ task.top_p = lastCall.f /\ lastCall.f # None
        /\ task.messages = prev.messages
        /\ task.maximum_tokens = prev.maximum_tokens
        /\ task.temperature = prev.temperature

C7_Witness ==
    /\ lastCall.op = "with_top_p"
    /\ prev.top_p # None
    /\ prev.top_p # task.top_p
    /\ task.temperature # None
    /\ task.temperature # task.top_p
    /\ task.maximum_tokens # None
    /\ Len(task.messages) >= 2

ExpectedToken(role) ==
    CASE role = "System" -> "system"
      [] role = "User" -> "user"
      [] role = "Assistant" -> "assistant"

ExpectedMessages(ms) ==
    JArray([i \in DOMAIN ms |->
        JObject(<<Entry("role", JString(ExpectedToken(ms[i].role))),
                  Entry("content", JString(ms[i].content))>>)])

\* C8: a task made by TaskChat::new and append_message calls on which no
\* setter was called has its three optional fields unset, and its request
\* body has exactly the keys model and messages: model is the model name
\* given and messages the task's messages in order, each {role, content}.
\* One User message "Hello" for "luminous-base" gives
\* {"model":"luminous-base","messages":[{"role":"user","content":"Hello"}]}.
C8_BodyWithoutOptions ==
    (origin = "new" /\ ~setterCalled) =>
        /\ task.maximum_tokens = None
        /\ task.temperature = None
        /\ task.top_p = None
        /\ pc = "requested" =>
            /\ KeysOf(Body) = <<"model", "messages">>
            /\ ValueOf(Body, "model") = JString(request[1].model)
            /\ ValueOf(Body, "messages") = ExpectedMessages(task.messages)
            /\ (/\ task.messages = <<Message("User", "Hello")>>
                /\ request[1].model = "luminous-base") =>
                Body = <<Entry("model", JString("luminous-base")),
                         Entry("messages", JArray(<<
                            JObject(<<Entry("role", JString("user")),
                                      Entry("content", JString("Hello"))>>)>>))>>

C8_Witness ==
    /\ origin = "new" /\ ~setterCalled
    /\ pc = "requested"
    /\ task.messages = <<Message("User", "Hello")>>
    /\ request[1].model = "luminous-base"

RoleTokenAt(i) == ValueOf(ValueOf(Body, "messages").items[i].fields, "role").str

\* C10: each Role variant is serialised as one of the three distinct tokens
\* "system", "user", "assistant", and deserialising the token written into
\* the request body gives back the variant of the message.
C10_RoleRoundTrip ==
    pc = "requested" =>
        \A i \in DOMAIN task.messages :
            /\ RoleTokenAt(i) \in {"system", "user", "assistant"}
            /\ RoleTokenAt(i) = ExpectedToken(task.messages[i].role)
            /\ DeserializeRole(RoleTokenAt(i)) = Some(task.messages[i].role)
            /\ \A j \in DOMAIN task.messages :
                task.messages[i].role # task.messages[j].role =>
                    RoleTokenAt(i) # RoleTokenAt(j)

C10_Witness ==
    /\ pc = "requested"
    /\ {task.messages[i].role : i \in DOMAIN task.messages} = Role

(***************************************************************************)
(* Properties of the response handling (under SpecClient)                  *)
(***************************************************************************)
Status == http[1].status

\* The choices of the ResponseChat handed to body_to_output.
Choices0 == DeserializeResponseChat(http[1].choices).choices

Extracted == pc = "done" /\ Status = 200

OutA == ChatOutput(Message("Assistant", "Hello"), "stop")
OutB == ChatOutput(Message("Assistant", "Hi"), "stop")
OutC == ChatOutput(Message("User", "Hi"), "maximum_tokens")

\* C2: body_to_output on a response with at least one choice returns the
\* last choice (C for [A, B, C], never A or B), whatever the task's messages
\* and optional fields are.
C2_ReturnsLastChoice ==
    (Extracted /\ Choices0 # <<>>) =>
        /\ result = "ok"
        /\ output = Some(Choices0[Len(Choices0)])
        /\ Choices0 = <<OutA, OutB, OutC>> =>
            output = Some(OutC) /\ output # Some(OutA) /\ output # Some(OutB)

C2_Witness ==
    /\ Extracted
    /\ http[1].choices = <<WireA, WireB, WireC>>
    /\ output = Some(OutC)
    /\ task.maximum_tokens # None

\* C3: body_to_output on a response without choices panics and returns no
\* ChatOutput, never a default one; the chat task fails in no other case.
C3_EmptyChoicesPanic ==
    /\ (Extracted /\ Choices0 = <<>>) => (result = "panic" /\ output = None)
    /\ result = "panic" => (Extracted /\ Choices0 = <<>>)
    /\ output # None => \E i \in DOMAIN Choices0 : output[1] = Choices0[i]

C3_Witness ==
    /\ Extracted
    /\ http[1].choices = <<>>
    /\ result = "panic"

C9_StatusClassification ==
    pc = "done" =>
        /\ (Status = 200 /\ Choices0 # <<>>) => (result = "ok" /\ output # None)
        /\ Status = 429 => result = "TooManyRequests"
        /\ (Status = 503 /\ http[1].code = "QUEUE_FULL") => result = "Busy"
        /\ Status \in {429, 503} => (result # "ok" /\ output = None)
        /\ result = "TooManyRequests" => Status = 429
        /\ result = "Busy" => Status = 503
        /\ result = "ok" => Status = 200

C9_Witness ==
    /\ pc = "done"
    /\ Status = 503
    /\ http[1].code = "QUEUE_FULL"
    /\ result = "Busy"

====
